---- MODULE Spec2Model ----
(***************************************************************************)
(* ModularMusicVisualizer, in parts: the frame pipe, the realtime audio    *)
(* source, the slicing of an audio file, the values interpolator with the  *)
(* loop feeding it, the analysis of an audio batch, the render loop of the *)
(* shaders and the type test of the particles; each part has its own       *)
(* specification further down.                                             *)
(*                                                                         *)
(* The frame pipe: FFmpegWrapper of                                        *)
(* src/src/mmv/common/wrappers/wrap_ffmpeg.py (write_to_pipe,              *)
(* pipe_writer_loop, close_pipe, configure_encoding, start), driven as     *)
(* src/src/mmv/mmvskia/mmv_skia_core.py and mmv_main.py drive it.          *)
(*                                                                         *)
(* Every read or write of an attribute shared between threads              *)
(* (stop_piping, lock_writing, images_to_pipe) is a step of its own; the   *)
(* sleeping polls of the code (time.sleep(0.1) and test again) are steps   *)
(* that are enabled only once the awaited condition holds.                 *)
(*                                                                         *)
(* src/mmv/video.py holds an earlier copy of the same three methods: its   *)
(* buffer limit is the literal 20 and its loop never closes stdin.         *)
(***************************************************************************)
EXTENDS Integers, Sequences, FiniteSets, TLC

\* Bounds of the model.
MaxFrames == 3      \* largest frame_count passed to pipe_writer_loop
MaxBuffer == 3      \* largest max_images_on_pipe_buffer passed to it
MaxSessions == 2    \* how often one FFmpegWrapper is configured and run

\* The render threads calling write_to_pipe / close_pipe, and the thread
\* running pipe_writer_loop (mmv_skia_core.py:97-110).
Workers == {"w1", "w2"}
PipeWriter == "pw"
Threads == Workers \cup {PipeWriter}

VARIABLES
    stop_piping,      \* self.stop_piping
    lock_writing,     \* self.lock_writing
    images_to_pipe,   \* self.images_to_pipe: a function index -> image
    max_images_on_pipe_buffer,  \* self.max_images_on_pipe_buffer (0: not set)
    count,            \* self.count
    image,            \* the local `image` of pipe_writer_loop
    stdin,            \* self.subprocess.stdin: [data: what was written, closed]
    pc,               \* where each thread is
    call,             \* the arguments of each worker's write_to_pipe in progress
    todo,             \* the frame indices each worker has still to render
    args,             \* frame_count, max_images_on_pipe_buffer given to the loop
    session           \* how many times configure_encoding + start have run

\* The frame pipe (FFmpegWrapper and the threads using it).
pipeVars == <<stop_piping, lock_writing, images_to_pipe,
              max_images_on_pipe_buffer, count, image, stdin, pc, call, todo,
              args, session>>

VARIABLES
    \* AudioSourceRealtime (cmn_audio.py:47-162)
    realtime,         \* what configure() was given: batch_size, recorder_numframes
    capture_pc,       \* where the thread running capture_and_process_loop is
    main_pc,          \* where the thread calling start_async is
    should_stop,      \* self.__should_stop
    info,             \* self.info: a function key -> the cycle it was computed in
    current_batch,    \* self.current_batch: channel -> sequence of samples
    cycle,            \* how many times source.record() has returned
    stop_requested,   \* stop() has been called
    \* ValuesInterpolator and the loop feeding it (run_shaders.py:383-613)
    interpolaters,    \* self.interpolaters: name -> [ratios, current, target]
    stepped,          \* how often next() went through for each name
    calls,            \* the calls of next() made from outside the loop
    frames,           \* iterations of _core_loop: all, not frozen, per info key
    \* AudioProcessing.slice_audio as MMVSkiaCore.run calls it
    slicing,          \* fps, sample_rate, batch_size, offset and track length
    slice_step,       \* the next `step` of the main loop
    audio_slice       \* self.audio_slice of the step before

realtimeVars == <<realtime, capture_pc, main_pc, should_stop, info,
                  current_batch, cycle, stop_requested>>
interpVars == <<interpolaters, stepped, calls, frames>>
sliceVars == <<slicing, slice_step, audio_slice>>

VARIABLES
    \* AudioProcessing (cmn_audio.py:203-343)
    config,           \* self.config: the bands in declaration order, or None
    config_error,     \* the last configure() failed with ConfigError
    slice_info,       \* what the last get_info_on_audio_slice yielded
    \* MMVShadersCLI._core_loop (run_shaders.py:436-577)
    shader_run,       \* self.mode and audio_source.total_steps
    shader_step,      \* the `step` of the main loop
    shader_pc,        \* where the main loop is
    \* Utils.is_matching_type (cmn_utils.py:226-236)
    matching          \* the call: items, wanted as left behind, the result

analysisVars == <<config, config_error, slice_info>>
shaderVars == <<shader_run, shader_step, shader_pc>>
typeVars == <<matching>>

\* Everything but the frame pipe.
audioVars == <<realtimeVars, interpVars, sliceVars, analysisVars, shaderVars,
               typeVars>>

vars == <<pipeVars, audioVars>>

\* An image is identified by the frame it was rendered for, the worker that
\* rendered it and the session it was rendered in.
NoImage == [frame |-> -1, by |-> "none", run |-> 0]
NoCall == [index |-> -1, image |-> NoImage, open |-> FALSE]
EmptyDict == <<>>

Keys(d) == DOMAIN d
Len_(d) == Cardinality(DOMAIN d)

\* dict[index] = image
SetItem(d, index, img) ==
    [k \in Keys(d) \cup {index} |-> IF k = index THEN img ELSE d[k]]

\* dict.pop(index): the dictionary without the key
PopItem(d, index) == [k \in Keys(d) \ {index} |-> d[k]]

InClosePipe(t) == pc[t] \in {"c_waitbuf", "c_waitlock", "c_stop"}
InWriteToPipe(t) == pc[t] \in {"w_wait", "w_insert"}

\* The loop thread has run its first two lines (the comment of write_to_pipe:
\* "run pipe_writer_loop first!!").
LoopStarted == pc[PipeWriter] \notin {"off", "start"}

\* The writer accepts frames: its loop runs, stop_piping is not set and
\* nobody is inside close_pipe.
IsOpen == LoopStarted /\ ~stop_piping /\ \A t \in Threads : ~InClosePipe(t)

\* for step in range(0, total_steps): the frame indices of a run
Indices == 0 .. (args.frame_count - 1)

----------------------------------------------------------------------------
\* The state before configure_encoding was ever called.
InitState ==
    /\ stop_piping = FALSE
    /\ lock_writing = FALSE
    /\ images_to_pipe = EmptyDict
    /\ max_images_on_pipe_buffer = 0
    /\ count = 0
    /\ image = NoImage
    /\ stdin = [data |-> <<>>, closed |-> FALSE]
    /\ pc = [t \in Threads |-> IF t = PipeWriter THEN "off" ELSE "idle"]
    /\ call = [t \in Workers |-> NoCall]
    /\ session = 0

\* No realtime source was configured or started.
RealtimeIdle ==
    /\ realtime = [batch_size |-> 0, recorder_numframes |-> 0]
    /\ capture_pc = "off"
    /\ main_pc = "idle"
    /\ should_stop = FALSE
    /\ info = EmptyDict
    /\ current_batch = <<>>
    /\ cycle = 0
    /\ stop_requested = FALSE

\* No interpolator was added, _core_loop does not run.
InterpIdle ==
    /\ interpolaters = EmptyDict
    /\ stepped = EmptyDict
    /\ calls = <<>>
    /\ frames = [all |-> 0, live |-> 0, with |-> EmptyDict]

\* No audio file is being sliced.
SliceIdle ==
    /\ slicing = [fps |-> 0, sample_rate |-> 0, batch_size |-> 0,
                  offset |-> 0, samples |-> 0]
    /\ slice_step = 0
    /\ audio_slice = <<>>

\* No AudioProcessing was configured, no batch was analysed.
AnalysisIdle ==
    /\ config = <<>>
    /\ config_error = FALSE
    /\ slice_info = <<>>

\* No shader is rendered or viewed.
ShaderIdle ==
    /\ shader_run = [mode |-> "none", total_steps |-> 0]
    /\ shader_step = 0
    /\ shader_pc = "off"

\* is_matching_type is not called.
TypeIdle == matching = <<>>

\* None of the three is in use.
RestIdle == AnalysisIdle /\ ShaderIdle /\ TypeIdle

\* No video is being encoded.
PipeIdle ==
    /\ InitState
    /\ args = [frame_count |-> 0, max_images_on_pipe_buffer |-> 0,
               sessions |-> 0, renderers |-> {}]
    /\ todo = [t \in Workers |-> {}]

\* What a run is given: the arguments of pipe_writer_loop
\* (mmv_skia_core.py:99-104), how many times the wrapper is configured and
\* run, and which workers render frames.
Runs(sessions, renderers) ==
    [frame_count : 1 .. MaxFrames,
     max_images_on_pipe_buffer : 1 .. MaxBuffer,
     sessions : sessions,
     renderers : renderers]

\* Any number of render workers, one session.
Init ==
    /\ InitState
    /\ RealtimeIdle /\ InterpIdle /\ SliceIdle /\ RestIdle
    /\ args \in Runs({1}, {Workers})
    /\ todo = [t \in Workers |-> {}]

\* One render worker (the main loop of mmv_skia_core.py), the other thread
\* only ever calls close_pipe; the wrapper is configured and run repeatedly.
InitReopen ==
    /\ InitState
    /\ RealtimeIdle /\ InterpIdle /\ SliceIdle /\ RestIdle
    /\ args \in Runs({MaxSessions}, {{"w1"}})
    /\ todo = [t \in Workers |-> {}]

\* One render worker, one session.
InitOne ==
    /\ InitState
    /\ RealtimeIdle /\ InterpIdle /\ SliceIdle /\ RestIdle
    /\ args \in Runs({1}, {{"w1"}})
    /\ todo = [t \in Workers |-> {}]

----------------------------------------------------------------------------
\* configure_encoding (its last three lines) followed by start(): a new
\* subprocess with a fresh stdin, and the loop thread created. The frames of
\* the run are handed to the render workers (each index once per worker).
ConfigureEncoding ==
    /\ session < args.sessions
    /\ pc[PipeWriter] \in {"off", "done"}
    /\ \A t \in Workers : pc[t] = "idle"
    /\ stop_piping' = FALSE
    /\ lock_writing' = FALSE
    /\ images_to_pipe' = EmptyDict
    /\ stdin' = [data |-> <<>>, closed |-> FALSE]
    /\ session' = session + 1
    /\ pc' = [pc EXCEPT ![PipeWriter] = "start"]
    /\ todo' = [t \in Workers |->
                  IF t \in args.renderers THEN Indices ELSE {}]
    /\ UNCHANGED <<max_images_on_pipe_buffer, count, image, call, args>>
    /\ UNCHANGED audioVars

\* Mutant of PipeWriterStart: self.count keeps the value of the last run.
PipeWriterStartStale ==
    /\ pc[PipeWriter] = "start"
    /\ max_images_on_pipe_buffer' = args.max_images_on_pipe_buffer
    /\ count' = count
    /\ pc' = [pc EXCEPT ![PipeWriter] = "while"]
    /\ UNCHANGED <<stop_piping, lock_writing, images_to_pipe, image, stdin,
                   call, todo, args, session>>
    /\ UNCHANGED audioVars

\* pipe_writer_loop, lines 279-280
PipeWriterStart ==
    /\ pc[PipeWriter] = "start"
    /\ max_images_on_pipe_buffer' = args.max_images_on_pipe_buffer
    /\ count' = 0
    /\ pc' = [pc EXCEPT ![PipeWriter] = "while"]
    /\ UNCHANGED <<stop_piping, lock_writing, images_to_pipe, image, stdin,
                   call, todo, args, session>>
    /\ UNCHANGED audioVars

\* while not self.stop_piping
PipeWriterWhile ==
    /\ pc[PipeWriter] = "while"
    /\ pc' = [pc EXCEPT ![PipeWriter] =
                 IF stop_piping THEN "close_stdin" ELSE "test"]
    /\ UNCHANGED <<stop_piping, lock_writing, images_to_pipe,
                   max_images_on_pipe_buffer, count, image, stdin, call, todo,
                   args, session>>
    /\ UNCHANGED audioVars

\* if self.count in list(self.images_to_pipe.keys()) ... else: time.sleep(0.1)
PipeWriterTest ==
    /\ pc[PipeWriter] = "test"
    /\ pc' = [pc EXCEPT ![PipeWriter] =
                 IF count \in Keys(images_to_pipe) THEN "lock" ELSE "while"]
    /\ UNCHANGED <<stop_piping, lock_writing, images_to_pipe,
                   max_images_on_pipe_buffer, count, image, stdin, call, todo,
                   args, session>>
    /\ UNCHANGED audioVars

\* self.lock_writing = True
PipeWriterLock ==
    /\ pc[PipeWriter] = "lock"
    /\ lock_writing' = TRUE
    /\ pc' = [pc EXCEPT ![PipeWriter] = "pop"]
    /\ UNCHANGED <<stop_piping, images_to_pipe, max_images_on_pipe_buffer,
                   count, image, stdin, call, todo, args, session>>
    /\ UNCHANGED audioVars

\* image = self.images_to_pipe.pop(self.count)
PipeWriterPop ==
    /\ pc[PipeWriter] = "pop"
    /\ count \in Keys(images_to_pipe)
    /\ image' = images_to_pipe[count]
    /\ images_to_pipe' = PopItem(images_to_pipe, count)
    /\ pc' = [pc EXCEPT ![PipeWriter] = "write"]
    /\ UNCHANGED <<stop_piping, lock_writing, max_images_on_pipe_buffer,
                   count, stdin, call, todo, args, session>>
    /\ UNCHANGED audioVars

\* self.subprocess.stdin.write(image)
PipeWriterWrite ==
    /\ pc[PipeWriter] = "write"
    /\ ~stdin.closed
    /\ stdin' = [stdin EXCEPT !.data = Append(@, image)]
    /\ image' = NoImage
    /\ pc' = [pc EXCEPT ![PipeWriter] = "unlock"]
    /\ UNCHANGED <<stop_piping, lock_writing, images_to_pipe,
                   max_images_on_pipe_buffer, count, call, todo, args, session>>
    /\ UNCHANGED audioVars

\* Mutant of LastFrame: the test is made against frame_count.
LastFrameOffByOne(c, frame_count) == c = frame_count

\* if self.count == frame_count - 1
LastFrame(c, frame_count) == c = frame_count - 1

\* Mutant of PipeWriterUnlock: the increment of self.count is forgotten.
PipeWriterUnlockStale ==
    /\ pc[PipeWriter] = "unlock"
    /\ lock_writing' = FALSE
    /\ count' = count
    /\ pc' = [pc EXCEPT ![PipeWriter] =
                 IF LastFrame(count, args.frame_count) THEN "c_waitbuf"
                                                       ELSE "while"]
    /\ UNCHANGED <<stop_piping, images_to_pipe, max_images_on_pipe_buffer,
                   image, stdin, call, todo, args, session>>
    /\ UNCHANGED audioVars

\* self.lock_writing = False, then the test for the last frame: close_pipe()
\* is called by the loop itself, otherwise self.count += 1
PipeWriterUnlock ==
    /\ pc[PipeWriter] = "unlock"
    /\ lock_writing' = FALSE
    /\ IF LastFrame(count, args.frame_count)
       THEN /\ pc' = [pc EXCEPT ![PipeWriter] = "c_waitbuf"]
            /\ count' = count
       ELSE /\ pc' = [pc EXCEPT ![PipeWriter] = "while"]
            /\ count' = count + 1
    /\ UNCHANGED <<stop_piping, images_to_pipe, max_images_on_pipe_buffer,
                   image, stdin, call, todo, args, session>>
    /\ UNCHANGED audioVars

\* self.count += 1 after the loop's own close_pipe() returned
PipeWriterInc ==
    /\ pc[PipeWriter] = "inc"
    /\ count' = count + 1
    /\ pc' = [pc EXCEPT ![PipeWriter] = "while"]
    /\ UNCHANGED <<stop_piping, lock_writing, images_to_pipe,
                   max_images_on_pipe_buffer, image, stdin, call, todo, args,
                   session>>
    /\ UNCHANGED audioVars

\* self.subprocess.stdin.close(), after the while loop
PipeWriterCloseStdin ==
    /\ pc[PipeWriter] = "close_stdin"
    /\ stdin' = [stdin EXCEPT !.closed = TRUE]
    /\ pc' = [pc EXCEPT ![PipeWriter] = "done"]
    /\ UNCHANGED <<stop_piping, lock_writing, images_to_pipe,
                   max_images_on_pipe_buffer, count, image, call, todo, args,
                   session>>
    /\ UNCHANGED audioVars

----------------------------------------------------------------------------
\* Mutant of ClosePipeWaitBuffer: close_pipe does not wait for the buffer.
ClosePipeNoWait(t) ==
    /\ pc[t] = "c_waitbuf"
    /\ pc' = [pc EXCEPT ![t] = "c_waitlock"]
    /\ UNCHANGED <<stop_piping, lock_writing, images_to_pipe,
                   max_images_on_pipe_buffer, count, image, stdin, call, todo,
                   args, session>>
    /\ UNCHANGED audioVars

\* close_pipe: while not len(self.images_to_pipe.keys()) == 0: sleep
ClosePipeWaitBuffer(t) ==
    /\ pc[t] = "c_waitbuf"
    /\ Len_(images_to_pipe) = 0
    /\ pc' = [pc EXCEPT ![t] = "c_waitlock"]
    /\ UNCHANGED <<stop_piping, lock_writing, images_to_pipe,
                   max_images_on_pipe_buffer, count, image, stdin, call, todo,
                   args, session>>
    /\ UNCHANGED audioVars

\* close_pipe: while self.lock_writing: sleep
ClosePipeWaitLock(t) ==
    /\ pc[t] = "c_waitlock"
    /\ ~lock_writing
    /\ pc' = [pc EXCEPT ![t] = "c_stop"]
    /\ UNCHANGED <<stop_piping, lock_writing, images_to_pipe,
                   max_images_on_pipe_buffer, count, image, stdin, call, todo,
                   args, session>>
    /\ UNCHANGED audioVars

\* close_pipe: self.stop_piping = True, and the return to the caller
ClosePipeStop(t) ==
    /\ pc[t] = "c_stop"
    /\ stop_piping' = TRUE
    /\ pc' = [pc EXCEPT ![t] = IF t = PipeWriter THEN "inc" ELSE "idle"]
    /\ UNCHANGED <<lock_writing, images_to_pipe, max_images_on_pipe_buffer,
                   count, image, stdin, call, todo, args, session>>
    /\ UNCHANGED audioVars

\* A worker calls close_pipe: at the end of its frames (mmv_skia_core.py:278)
\* or at any earlier point on KeyboardInterrupt (mmv_main.py:117-119).
ClosePipeCall(t) ==
    /\ t \in Workers
    /\ pc[t] = "idle"
    /\ LoopStarted
    /\ pc' = [pc EXCEPT ![t] = "c_waitbuf"]
    /\ UNCHANGED <<stop_piping, lock_writing, images_to_pipe,
                   max_images_on_pipe_buffer, count, image, stdin, call, todo,
                   args, session>>
    /\ UNCHANGED audioVars

----------------------------------------------------------------------------
\* A worker calls write_to_pipe(index, image) for one of its frames
\* (mmv_skia_core.py:265).
WriteToPipeCall(t) ==
    /\ pc[t] = "idle"
    /\ LoopStarted
    /\ \E index \in todo[t] :
          /\ call' = [call EXCEPT ![t] =
                        [index |-> index,
                         image |-> [frame |-> index, by |-> t, run |-> session],
                         open |-> IsOpen]]
          /\ todo' = [todo EXCEPT ![t] = @ \ {index}]
    /\ pc' = [pc EXCEPT ![t] = "w_wait"]
    /\ UNCHANGED <<stop_piping, lock_writing, images_to_pipe,
                   max_images_on_pipe_buffer, count, image, stdin, args, session>>
    /\ UNCHANGED audioVars

\* Mutant of BufferFull: the limit is taken one too low.
BufferFullOffByOne(d, limit) == Len_(d) >= limit - 1

\* while len(list(self.images_to_pipe.keys())) >= self.max_images_on_pipe_buffer
BufferFull(d, limit) == Len_(d) >= limit

WriteToPipeWait(t) ==
    /\ pc[t] = "w_wait"
    /\ ~BufferFull(images_to_pipe, max_images_on_pipe_buffer)
    /\ pc' = [pc EXCEPT ![t] = "w_insert"]
    /\ UNCHANGED <<stop_piping, lock_writing, images_to_pipe,
                   max_images_on_pipe_buffer, count, image, stdin, call, todo,
                   args, session>>
    /\ UNCHANGED audioVars

\* self.images_to_pipe[index] = image, and the return
WriteToPipeInsert(t) ==
    /\ pc[t] = "w_insert"
    /\ images_to_pipe' = SetItem(images_to_pipe, call[t].index, call[t].image)
    /\ call' = [call EXCEPT ![t] = NoCall]
    /\ pc' = [pc EXCEPT ![t] = "idle"]
    /\ UNCHANGED <<stop_piping, lock_writing, max_images_on_pipe_buffer,
                   count, image, stdin, todo, args, session>>
    /\ UNCHANGED audioVars

----------------------------------------------------------------------------
PipeWriterLoop ==
    \/ PipeWriterStart
    \/ PipeWriterWhile
    \/ PipeWriterTest
    \/ PipeWriterLock
    \/ PipeWriterPop
    \/ PipeWriterWrite
    \/ PipeWriterUnlock
    \/ PipeWriterInc
    \/ PipeWriterCloseStdin

ClosePipe(t) ==
    \/ ClosePipeWaitBuffer(t)
    \/ ClosePipeWaitLock(t)
    \/ ClosePipeStop(t)

WriteToPipe(t) ==
    \/ WriteToPipeCall(t)
    \/ WriteToPipeWait(t)
    \/ WriteToPipeInsert(t)

Next ==
    \/ ConfigureEncoding
    \/ PipeWriterLoop
    \/ \E t \in Threads : ClosePipe(t)
    \/ \E t \in Workers : ClosePipeCall(t)
    \/ \E t \in Workers : WriteToPipe(t)

Spec == Init /\ [][Next]_vars

ReopenSpec == InitReopen /\ [][Next]_vars

\* Every thread that can take a step eventually takes one: the loop thread
\* and the calls in progress are scheduled (CPython switches threads at
\* every sleep and every few milliseconds). Whether and when a worker calls
\* close_pipe, or renders its next frame after close_pipe, is its own choice,
\* except that a renderer that never closes renders all its frames.
Fairness ==
    /\ WF_vars(ConfigureEncoding)
    /\ WF_vars(PipeWriterLoop)
    /\ \A t \in Threads : WF_vars(ClosePipe(t))
    /\ \A t \in Workers : WF_vars(WriteToPipe(t))

FairSpec == InitOne /\ [][Next]_vars /\ Fairness

----------------------------------------------------------------------------
(***************************************************************************)
(* AudioSourceRealtime of src/src/mmv/common/cmn_audio.py: start_async,    *)
(* stop, capture_and_process_loop and get_info.                            *)
(*                                                                         *)
(* self.info and self.__should_stop are shared between the capture thread  *)
(* and its callers: every read or write of them is a step of its own.      *)
(* self.current_batch is only used by the capture thread: a cycle changes  *)
(* it in one step. A sample is known by the channel, the cycle and the     *)
(* position it was recorded at, and by how often it was faded by 0.95.    *)
(***************************************************************************)
MaxBatch == 3       \* largest batch_size given to configure()
MaxNew == 4         \* largest recorder_numframes given to configure()
MaxCycles == 3      \* how many times source.record() returns

Channels == {0, 1}

\* np.zeros: one sample of silence (fading it leaves it as it is)
Zero == [channel |-> 0, cycle |-> 0, at |-> 0, faded |-> 0]

\* np.zeros(n)
Zeros(n) == [i \in 1 .. n |-> Zero]

\* source.record(numframes).T[channel_number] of the given cycle
Recorded(channel_number, c, numframes) ==
    [j \in 1 .. numframes |->
        [channel |-> channel_number, cycle |-> c, at |-> j - 1, faded |-> 0]]

\* np.roll(row, -n, axis = -1): element i moves to i - n, wrapping around
Roll(row, n) ==
    [i \in 1 .. Len(row) |-> row[((i - 1 + n) % Len(row)) + 1]]

\* row * 0.95
Fade(row) ==
    [i \in 1 .. Len(row) |->
        IF row[i] = Zero THEN Zero ELSE [row[i] EXCEPT !.faded = @ + 1]]

\* np.put(row, range(0, batch_size), values, mode = "wrap"): every index of
\* the range is written, the values are repeated when there are fewer of
\* them than indices and the surplus ones are ignored.
Put(row, values) ==
    [i \in 1 .. Len(row) |-> values[((i - 1) % Len(values)) + 1]]

\* The keys get_info_on_audio_slice yields, in the order it yields them
\* (cmn_audio.py:243, 247, 310).
InfoKeys == <<"average_amplitudes", "standard_deviations", "fft">>

\* The configurations of the realtime source.
RealtimeConfigs ==
    [batch_size : 1 .. MaxBatch, recorder_numframes : 1 .. MaxNew]

RealtimeInit ==
    /\ PipeIdle /\ InterpIdle /\ SliceIdle /\ RestIdle
    /\ realtime \in RealtimeConfigs
    /\ capture_pc = "off"
    /\ main_pc = "idle"
    /\ should_stop = FALSE
    /\ info = EmptyDict
    /\ current_batch = <<>>
    /\ cycle = 0
    /\ stop_requested = FALSE

realtimeRest == <<pipeVars, interpVars, sliceVars, analysisVars, shaderVars,
                  typeVars>>

\* start_async, lines 90-91: the thread is created and started
StartAsyncThread ==
    /\ main_pc = "idle"
    /\ main_pc' = "l94"
    /\ capture_pc' = "l109"
    /\ UNCHANGED <<realtime, should_stop, info, current_batch, cycle,
                   stop_requested>>
    /\ UNCHANGED realtimeRest

\* start_async, line 94: self.info = {}
StartAsyncClear ==
    /\ main_pc = "l94"
    /\ info' = EmptyDict
    /\ main_pc' = "l95"
    /\ UNCHANGED <<realtime, capture_pc, should_stop, current_batch, cycle,
                   stop_requested>>
    /\ UNCHANGED realtimeRest

\* start_async, lines 95-96: while not self.info: sleep; then it returns
StartAsyncWait ==
    /\ main_pc = "l95"
    /\ info # EmptyDict
    /\ main_pc' = "started"
    /\ UNCHANGED <<realtime, capture_pc, should_stop, info, current_batch,
                   cycle, stop_requested>>
    /\ UNCHANGED realtimeRest

\* get_info, line 162: the caller is handed self.info itself, so what it
\* reads from the map from now on is what `info` holds at that moment.
GetInfo ==
    /\ main_pc \in {"started", "reading"}
    /\ main_pc' = "reading"
    /\ UNCHANGED <<realtime, capture_pc, should_stop, info, current_batch,
                   cycle, stop_requested>>
    /\ UNCHANGED realtimeRest

\* stop, line 100, called by any thread once the capture thread exists
Stop ==
    /\ main_pc # "idle"
    /\ ~stop_requested
    /\ should_stop' = TRUE
    /\ stop_requested' = TRUE
    /\ UNCHANGED <<realtime, capture_pc, main_pc, info, current_batch, cycle>>
    /\ UNCHANGED realtimeRest

\* capture_and_process_loop, line 109
CaptureZeros ==
    /\ capture_pc = "l109"
    /\ current_batch' = [ch \in Channels |-> Zeros(realtime.batch_size)]
    /\ capture_pc' = "l111"
    /\ UNCHANGED <<realtime, main_pc, should_stop, info, cycle,
                   stop_requested>>
    /\ UNCHANGED realtimeRest

\* line 111: self.__should_stop = False
CaptureClearStop ==
    /\ capture_pc = "l111"
    /\ should_stop' = FALSE
    /\ capture_pc' = "l112"
    /\ UNCHANGED <<realtime, main_pc, info, current_batch, cycle,
                   stop_requested>>
    /\ UNCHANGED realtimeRest

\* line 112: self.info = {}
CaptureClearInfo ==
    /\ capture_pc = "l112"
    /\ info' = EmptyDict
    /\ capture_pc' = "l118"
    /\ UNCHANGED <<realtime, main_pc, should_stop, current_batch, cycle,
                   stop_requested>>
    /\ UNCHANGED realtimeRest

\* line 118: while not self.__should_stop
CaptureWhile ==
    /\ capture_pc = "l118"
    /\ capture_pc' = IF should_stop THEN "l154" ELSE "l125"
    /\ UNCHANGED <<realtime, main_pc, should_stop, info, current_batch,
                   cycle, stop_requested>>
    /\ UNCHANGED realtimeRest

\* lines 125-148: record, roll the batch by the number of new samples, then
\* for each channel fade it and put the new data
CaptureCycle ==
    /\ capture_pc = "l125"
    /\ cycle < MaxCycles
    /\ cycle' = cycle + 1
    /\ LET new_audio_data_len == realtime.recorder_numframes
       IN  current_batch' =
              [ch \in Channels |->
                  Put(Fade(Roll(current_batch[ch], new_audio_data_len)),
                      Recorded(ch, cycle + 1, new_audio_data_len))]
    /\ capture_pc' = "l152_1"
    /\ UNCHANGED <<realtime, main_pc, should_stop, info, stop_requested>>
    /\ UNCHANGED realtimeRest

\* lines 151-152: self.info[info[0]] = info[1], once for each key yielded
CaptureSetInfo ==
    \E i \in 1 .. Len(InfoKeys) :
        /\ capture_pc = <<"l152_1", "l152_2", "l152_3">>[i]
        /\ info' = SetItem(info, InfoKeys[i], cycle)
        /\ capture_pc' = <<"l152_2", "l152_3", "l118">>[i]
        /\ UNCHANGED <<realtime, main_pc, should_stop, current_batch, cycle,
                       stop_requested>>
        /\ UNCHANGED realtimeRest

\* line 154: self.__should_stop = False, and the thread ends
CaptureExit ==
    /\ capture_pc = "l154"
    /\ should_stop' = FALSE
    /\ capture_pc' = "done"
    /\ UNCHANGED <<realtime, main_pc, info, current_batch, cycle,
                   stop_requested>>
    /\ UNCHANGED realtimeRest

RealtimeNext ==
    \/ StartAsyncThread
    \/ StartAsyncClear
    \/ StartAsyncWait
    \/ GetInfo
    \/ Stop
    \/ CaptureZeros
    \/ CaptureClearStop
    \/ CaptureClearInfo
    \/ CaptureWhile
    \/ CaptureCycle
    \/ CaptureSetInfo
    \/ CaptureExit

RealtimeSpec == RealtimeInit /\ [][RealtimeNext]_vars

----------------------------------------------------------------------------
(***************************************************************************)
(* The audio of a file, sliced once per step by the main loop of           *)
(* MMVSkiaCore.run (src/src/mmv/mmvskia/mmv_skia_core.py:159-203) with     *)
(* AudioProcessing.slice_audio (src/src/mmv/common/cmn_audio.py:351-378).  *)
(*                                                                         *)
(* A sample of the file is known by its channel and its position. Times    *)
(* are computed exactly: (1 / fps) * this_step * sample_rate, truncated by *)
(* int(), is the integer quotient of this_step * sample_rate by fps.       *)
(***************************************************************************)
MaxFps == 2         \* largest context.fps
MaxRate == 2        \* largest audio.sample_rate
MaxSamples == 5     \* largest number of samples per channel of the file
MaxOffset == 1      \* largest |context.offset_audio_before_in_many_steps|

\* stereo_data[channel_number][at]
FileSample(channel_number, at) == [channel |-> channel_number, at |-> at]

\* An element of np.zeros
Silent == [channel |-> -1, at |-> -1]

\* audio.stereo_data (cmn_audio.py:174-183) of a file of the given length
StereoData(samples) ==
    [ch \in Channels |-> [i \in 1 .. samples |-> FileSample(ch, i - 1)]]

Min(a, b) == IF a < b THEN a ELSE b
Max(a, b) == IF a > b THEN a ELSE b

\* row[start_cut:end_cut] for 0 <= start_cut: the elements of the range that
\* exist
PySlice(row, start_cut, end_cut) ==
    SubSeq(row, start_cut + 1, Min(end_cut, Len(row)))

\* context.total_steps = int(audio.duration * context.fps), where
\* audio.duration = stereo_data.shape[1] / sample_rate (cmn_audio.py:186)
TotalSteps(s) == (s.samples * s.fps) \div s.sample_rate

\* Mutant of ThisStep: the offsetted step is not brought back into the video.
ThisStepUnclamped(step, s) == step + s.offset

\* mmv_skia_core.py:172-176: the step plus the offset, at most total_steps - 1
ThisStep(step, s) ==
    IF step + s.offset >= TotalSteps(s) - 1
    THEN TotalSteps(s) - 1
    ELSE step + s.offset

\* lines 184-190: int(max((1 / fps) * this_step, 0) * sample_rate)
ThisTimeInSamples(step, s) ==
    (Max(ThisStep(step, s), 0) * s.sample_rate) \div s.fps

\* slice_audio with a batch_size, lines 361-373: three rows of zeros, the
\* first two overwritten from their start with the slice of their channel
SliceAudio(stereo_data, start_cut, end_cut, batch_size) ==
    [r \in 0 .. 2 |->
        IF r \in Channels
        THEN LET cut == PySlice(stereo_data[r], start_cut, end_cut)
             IN  [i \in 1 .. batch_size |->
                     IF i <= Len(cut) THEN cut[i] ELSE Silent]
        ELSE [i \in 1 .. batch_size |-> Silent]]

SliceConfigs ==
    [fps : 1 .. MaxFps, sample_rate : 1 .. MaxRate,
     batch_size : 1 .. MaxBatch, offset : (0 - MaxOffset) .. MaxOffset,
     samples : 1 .. MaxSamples]

SliceInit ==
    /\ PipeIdle /\ RealtimeIdle /\ InterpIdle /\ RestIdle
    /\ slicing \in SliceConfigs
    /\ slice_step = 0
    /\ audio_slice = <<>>

\* One iteration of `for step in range(0, total_steps)`, lines 159-203
RunStep ==
    /\ slice_step < TotalSteps(slicing)
    /\ LET this_time_in_samples == ThisTimeInSamples(slice_step, slicing)
           until == this_time_in_samples + slicing.batch_size
       IN  audio_slice' = SliceAudio(StereoData(slicing.samples),
                                     this_time_in_samples, until,
                                     slicing.batch_size)
    /\ slice_step' = slice_step + 1
    /\ UNCHANGED slicing
    /\ UNCHANGED <<pipeVars, realtimeVars, interpVars, analysisVars,
                   shaderVars, typeVars>>

SliceNext == RunStep

SliceSpec == SliceInit /\ [][SliceNext]_vars

----------------------------------------------------------------------------
(***************************************************************************)
(* ValuesInterpolator of src/src/run_shaders.py (add_interpolater, next).  *)
(*                                                                         *)
(* Values are whole numbers of some small unit and a ratio is a fraction   *)
(* num / den; the product of a value and a ratio is rounded down to the    *)
(* unit (the code rounds it to the nearest float). Arrays are sequences;   *)
(* two arrays combine elementwise when they have the same length or one    *)
(* of them has length 1, as numpy broadcasts them, and raise ValueError    *)
(* otherwise.                                                              *)
(***************************************************************************)
InterpSize == 3     \* size of the interpolaters of the features (100)
FftSize == 2        \* MMV_FFTSIZE, the size of the interpolater of the FFT
MaxFeedLen == 3     \* longest array fed with mode = "replace"
MaxCalls == 3       \* how many times next() is called from outside the loop

\* f"mmv_{feature}_{channel_name}" and f"mmv_progressive_{feature}_..."
InterpName(feature, channel_name, progressive) ==
    [feature |-> feature, channel_name |-> channel_name,
     progressive |-> progressive]

\* "mmv_fft"
MmvFft == InterpName("fft", "", FALSE)

\* fixed_ratio = None, and fixed_ratio = 0.2 (line 431)
NoRatio == [num |-> -1, den |-> 1]
FftRatio == [num |-> 1, den |-> 5]

\* np.linspace(0, 1, size)
Linspace(size) ==
    [i \in 1 .. size |->
        IF size = 1 THEN [num |-> 0, den |-> 1]
                    ELSE [num |-> i - 1, den |-> size - 1]]

\* add_interpolater(name, size, fixed_ratio), lines 586-598, on the
\* dictionary d
AddInterpolater(d, name, size, fixed_ratio) ==
    LET ratios == IF fixed_ratio = NoRatio
                  THEN Linspace(size)
                  ELSE [i \in 1 .. size |-> fixed_ratio]
        built == [current |-> [i \in 1 .. size |-> 0],
                  target |-> [i \in 1 .. size |-> 0],
                  ratios |-> ratios]
    IN  [n \in Keys(d) \cup {name} |-> IF n = name THEN built ELSE d[n]]

\* The length two arrays of lengths la and lb broadcast to; -1: ValueError
BroadcastLen(la, lb) ==
    IF la = lb THEN la
    ELSE IF la = 1 THEN lb
    ELSE IF lb = 1 THEN la
    ELSE -1

\* Element i of an array broadcast to a longer one
At(a, i) == IF Len(a) = 1 THEN a[1] ELSE a[i]

\* Mutant of Lerp: current and target change places.
LerpFromTarget(c, t, r) == t + ((c - t) * r.num) \div r.den

\* Mutant of Lerp: no interpolation, current becomes target.
LerpToTarget(c, t, r) == t

\* line 613, for one element: current + ((target - current) * ratio)
Lerp(c, t, r) == c + ((t - c) * r.num) \div r.den

\* Mutant of SetTarget: "fill" adds to the target like "add" does.
SetTargetAdding(sc, feed, mode) ==
    IF mode = "replace"
    THEN feed
    ELSE [i \in 1 .. Len(sc.target) |-> sc.target[i] + feed]

\* The first lines of next(), 602-607: the new target
SetTarget(sc, feed, mode) ==
    CASE mode = "fill" -> [i \in 1 .. Len(sc.target) |-> feed]
      [] mode = "replace" -> feed
      [] mode = "add" -> [i \in 1 .. Len(sc.target) |-> sc.target[i] + feed]

\* The length of sc["current"] + ((sc["target"] - sc["current"]) *
\* sc["ratios"]) for a target t; -1: ValueError
StepLen(sc, t) ==
    LET n == BroadcastLen(Len(t), Len(sc.current))
    IN  IF n = -1 THEN -1 ELSE BroadcastLen(n, Len(sc.ratios))

\* next(name, feed, mode) on the interpolater sc: the target is set, then
\* current is computed and assigned (line 613) unless that raises.
NextOf(sc, feed, mode) ==
    LET t == SetTarget(sc, feed, mode)
        n == StepLen(sc, t)
    IN  IF n = -1
        THEN [sc EXCEPT !.target = t]
        ELSE [sc EXCEPT !.target = t,
                        !.current = [i \in 1 .. n |->
                            Lerp(At(sc.current, i), At(t, i),
                                 At(sc.ratios, i))]]

\* next() raises ValueError
Raises(sc, feed, mode) == StepLen(sc, SetTarget(sc, feed, mode)) = -1

\* What next() is fed: a number with "fill" and "add", an array with
\* "replace".
Modes == {"fill", "replace", "add"}
Feeds(mode) ==
    IF mode = "replace"
    THEN {[i \in 1 .. n |-> v * i] : n \in 1 .. MaxFeedLen, v \in {5, 10}}
    ELSE {0, 10}

\* The interpolater of one feature and the one of the FFT, as _core_loop
\* adds them (lines 422 and 431).
InterpInit ==
    /\ PipeIdle /\ RealtimeIdle /\ SliceIdle /\ RestIdle
    /\ interpolaters =
          AddInterpolater(
              AddInterpolater(EmptyDict, InterpName("rms", "r", FALSE),
                              InterpSize, NoRatio),
              MmvFft, FftSize, FftRatio)
    /\ stepped = [name \in {InterpName("rms", "r", FALSE), MmvFft} |-> 0]
    /\ calls = <<>>
    /\ frames = [all |-> 0, live |-> 0, with |-> EmptyDict]

\* A call of next(name, feed, mode), lines 600-613
NextCall ==
    /\ Len(calls) < MaxCalls
    /\ \E name \in Keys(interpolaters), mode \in Modes :
          \E feed \in Feeds(mode) :
              /\ interpolaters' =
                    [interpolaters EXCEPT
                        ![name] = NextOf(interpolaters[name], feed, mode)]
              /\ stepped' =
                    [stepped EXCEPT
                        ![name] = IF Raises(interpolaters[name], feed, mode)
                                  THEN @ ELSE @ + 1]
              /\ calls' = Append(calls,
                    [name |-> name, mode |-> mode, feed |-> feed,
                     before |-> interpolaters[name],
                     raised |-> Raises(interpolaters[name], feed, mode)])
    /\ UNCHANGED frames
    /\ UNCHANGED <<pipeVars, realtimeVars, sliceVars, analysisVars,
                   shaderVars, typeVars>>

InterpNext == NextCall

InterpSpec == InterpInit /\ [][InterpNext]_vars

----------------------------------------------------------------------------
(***************************************************************************)
(* The loop of MMVShadersCLI._core_loop (src/src/run_shaders.py:416-507)   *)
(* as far as it drives the interpolator: the interpolaters it adds and the *)
(* calls of next() of one iteration. The multiplier is taken as 1.         *)
(***************************************************************************)
MaxLoopFrames == 3  \* how many iterations of the loop are followed

\* audio_features and enumerate("rlm"), lines 418 and 421
AudioFeatures == {"rms", "std"}
ChannelNames == {"r", "l", "m"}
IndexOf(channel_name) ==
    CASE channel_name = "r" -> 1
      [] channel_name = "l" -> 2
      [] channel_name = "m" -> 3

\* The names given to add_interpolater in lines 420-431
FeatureNames ==
    {InterpName(feature, channel_name, progressive) :
        feature \in AudioFeatures, channel_name \in ChannelNames,
        progressive \in BOOLEAN}
LoopNames == FeatureNames \cup {MmvFft}

\* f"mmv_{feature}" and "mmv_fft": the key of pipeline_info an interpolater
\* is fed from
InfoKey(name) ==
    CASE name.feature = "rms" -> "mmv_rms"
      [] name.feature = "std" -> "mmv_std"
      [] name.feature = "fft" -> "mmv_fft"
InfoMapKeys == {InfoKey(name) : name \in LoopNames}

\* What audio_source.get_info() may return: any of the keys, a value per
\* channel for a feature and an array of MMV_FFTSIZE values for the FFT
InfoMaps ==
    {[k \in keys |->
         IF k = "mmv_fft" THEN [i \in 1 .. FftSize |-> 10 * i]
                          ELSE <<10, 20, 30>>] : keys \in SUBSET InfoMapKeys}

\* Mutant of Interpolates: the interpolaters are fed in a frozen frame too.
InterpolatesFrozen(freezed_pipeline) == TRUE

\* line 478: if not self.mgl.freezed_pipeline
Interpolates(freezed_pipeline) == ~freezed_pipeline

\* lines 481-503: is next() called for this name, with what and how
IsFed(name, pipeline_info, freezed_pipeline) ==
    /\ Interpolates(freezed_pipeline)
    /\ InfoKey(name) \in Keys(pipeline_info)
FeedOf(name, pipeline_info) ==
    IF name = MmvFft
    THEN pipeline_info["mmv_fft"]
    ELSE IF name.progressive
    THEN pipeline_info[InfoKey(name)][IndexOf(name.channel_name)] * 4
    ELSE pipeline_info[InfoKey(name)][IndexOf(name.channel_name)]
ModeOf(name) ==
    IF name = MmvFft THEN "replace"
    ELSE IF name.progressive THEN "add" ELSE "fill"

\* The interpolaters after lines 420-431
CoreLoopInit ==
    /\ PipeIdle /\ RealtimeIdle /\ SliceIdle /\ RestIdle
    /\ interpolaters =
          [name \in LoopNames |->
              IF name = MmvFft
              THEN AddInterpolater(EmptyDict, name, FftSize, FftRatio)[name]
              ELSE AddInterpolater(EmptyDict, name, InterpSize, NoRatio)[name]]
    /\ stepped = [name \in LoopNames |-> 0]
    /\ calls = <<>>
    /\ frames = [all |-> 0, live |-> 0, with |-> [k \in InfoMapKeys |-> 0]]

\* One iteration of the loop, lines 455-507
CoreLoopIteration ==
    /\ frames.all < MaxLoopFrames
    /\ \E pipeline_info \in InfoMaps, freezed_pipeline \in BOOLEAN :
          /\ interpolaters' =
                [name \in LoopNames |->
                    IF IsFed(name, pipeline_info, freezed_pipeline)
                    THEN NextOf(interpolaters[name],
                                FeedOf(name, pipeline_info), ModeOf(name))
                    ELSE interpolaters[name]]
          /\ stepped' =
                [name \in LoopNames |->
                    IF /\ IsFed(name, pipeline_info, freezed_pipeline)
                       /\ ~Raises(interpolaters[name],
                                  FeedOf(name, pipeline_info), ModeOf(name))
                    THEN stepped[name] + 1
                    ELSE stepped[name]]
          /\ frames' =
                [all |-> frames.all + 1,
                 live |-> IF freezed_pipeline THEN frames.live
                                              ELSE frames.live + 1,
                 with |-> [k \in InfoMapKeys |->
                             IF ~freezed_pipeline /\ k \in Keys(pipeline_info)
                             THEN frames.with[k] + 1
                             ELSE frames.with[k]]]
    /\ UNCHANGED calls
    /\ UNCHANGED <<pipeVars, realtimeVars, sliceVars, analysisVars,
                   shaderVars, typeVars>>

CoreLoopNext == CoreLoopIteration

CoreLoopSpec == CoreLoopInit /\ [][CoreLoopNext]_vars

----------------------------------------------------------------------------
(***************************************************************************)
(* The analysis of an audio batch:                                         *)
(* AudioProcessing.get_info_on_audio_slice and resample                    *)
(* (src/src/mmv/common/cmn_audio.py:203-343), on a batch of two rows as    *)
(* the capture loop hands it over (line 151).                              *)
(*                                                                         *)
(* Samples are integers. The average amplitudes are kept in quarters (a    *)
(* median of an even number of integers is a half, the mean of two such    *)
(* medians a quarter), on which round(x, 8) changes nothing. A magnitude   *)
(* of the fft is kept as what it is computed from: the row, the band, the  *)
(* note and the resampled samples. The standard deviations yielded         *)
(* between the two only read the batch and are left out.                   *)
(*                                                                         *)
(* configure() of this class (called at run_shaders.py:181) and            *)
(* DataUtils.list_items_in_between are not part of the sources at hand.    *)
(***************************************************************************)
MaxSlice == 2     \* most samples of one row of a batch
MaxBands == 2     \* most bands of a configuration

\* A sample that is not a number.
NaN == -1000
Samples == {-2, 1, NaN}

\* self.config = None (a configuration has one band at least)
None == <<>>

\* original_sample_rate: the sample rate of the source
OriginalSampleRate == MaxRate

\* self.piano_keys_frequencies, round(440 * 2 ** (n / 12), 2): the keys
\* n = -2 .. 2 of range(-50, 68), in hundredths of a hertz.
PianoKeysFrequencies == <<39200, 41530, 44000, 46616, 49388>>

\* The bands a configuration is made of: a target sample rate (none, half
\* a hertz or so, or the rate of the source) and the two ends in hundredths
\* of a hertz (the second pair is the wrong way round).
Bands ==
    [sample_rate : {0, 1, OriginalSampleRate},
     ends : {<<39200, 44000>>, <<46616, 41530>>, <<45000, 50000>>}]

start_freq(band) == band.ends[1]
end_freq(band) == band.ends[2]

\* Ordered sequences of one to MaxBands bands.
Configurations ==
    UNION {[1 .. n -> Bands] : n \in 1 .. MaxBands}

\* The batches: two rows of the same length, empty ones included.
Batches ==
    UNION {[1 .. 2 -> [1 .. n -> Samples]] : n \in 0 .. MaxSlice}

\* What configure() checks of a band.
ValidBandAlways(band) == TRUE

ValidBand(band) ==
    /\ start_freq(band) < end_freq(band)
    /\ band.sample_rate > 0

\* np.abs
Abs(x) == IF x = NaN THEN NaN ELSE IF x < 0 THEN -x ELSE x

\* a + b of floats
Plus(a, b) == IF a = NaN \/ b = NaN THEN NaN ELSE a + b

\* The values of a row in ascending order.
SortedRow(row) ==
    LET n == Len(row)
        perm == CHOOSE p \in [1 .. n -> 1 .. n] :
                    /\ \A i, j \in 1 .. n : i # j => p[i] # p[j]
                    /\ \A i \in 1 .. n : i < n => row[p[i]] <= row[p[i + 1]]
    IN  [i \in 1 .. n |-> row[perm[i]]]

\* Twice np.median(row): the middle value, or the mean of the two middle
\* ones; nan for an empty row and for a row holding a nan.
Median2(row) ==
    LET n == Len(row)
        s == SortedRow(row)
    IN  IF n = 0 \/ \E i \in 1 .. n : row[i] = NaN THEN NaN
        ELSE IF n % 2 = 1 THEN 2 * s[(n + 1) \div 2]
        ELSE s[n \div 2] + s[n \div 2 + 1]

\* np.abs of a row
AbsRow(row) == [i \in 1 .. Len(row) |-> Abs(row[i])]

\* Twice mono = (rows[0] + rows[1]) / 2
Mono2(rows) ==
    [i \in 1 .. Len(rows[1]) |->
        Plus(rows[1][i], rows[2][i])]

\* average_amplitudes, in quarters: the median of |row| for the rows 0 and
\* 1, then sum(average_amplitudes) / 2.
AverageAmplitudes(rows) ==
    LET l == Median2(AbsRow(rows[1]))
        r == Median2(AbsRow(rows[2]))
    IN  <<Plus(l, l), Plus(r, r), Plus(l, r)>>

\* What samplerate.resample (a library) returns as single precision: as
\* many samples as the ratio leaves, each the input sample of its instant
\* with its lowest bit dropped; nothing for a ratio that is not positive.
Single(x) == IF x = NaN THEN NaN ELSE 2 * (x \div 2)

SamplerateResample(data, ratio) ==
    IF ratio.num <= 0 THEN <<>>
    ELSE [i \in 1 .. ((Len(data) * ratio.num) \div ratio.den) |->
             Single(data[((i - 1) * ratio.den) \div ratio.num + 1])]

\* Mutant of Resample: every call goes through the library.
ResampleAlways(data, original_sample_rate, new_sample_rate) ==
    SamplerateResample(data,
        [num |-> new_sample_rate, den |-> original_sample_rate])

\* resample(data, original_sample_rate, new_sample_rate)
Resample(data, original_sample_rate, new_sample_rate) ==
    IF new_sample_rate = original_sample_rate THEN data
    ELSE SamplerateResample(data,
             [num |-> new_sample_rate, den |-> original_sample_rate])

\* datautils.list_items_in_between(l, start, end): the items of l from
\* start to end, both included.
ListItemsInBetween(l, start, end) ==
    SelectSeq(l, LAMBDA x : start <= x /\ x <= end)

RECURSIVE Concat(_)
\* processed.append over nested loops: the sequences one after the other
Concat(seqs) ==
    IF seqs = <<>> THEN <<>> ELSE Head(seqs) \o Concat(Tail(seqs))

\* Mutant of BandValues: one magnitude for each resampled sample.
BandValuesPerSample(data, channel, b, band) ==
    LET resampled == Resample(data, OriginalSampleRate, band.sample_rate)
    IN  [k \in 1 .. Len(resampled) |->
            [channel |-> channel, band |-> b,
             freq |-> PianoKeysFrequencies[1], of |-> resampled]]

\* The body of the loop over the bands: one magnitude is appended for each
\* wanted frequency, found in the binned fft of the resampled row.
BandValues(data, channel, b, band) ==
    LET wanted_freqs == ListItemsInBetween(PianoKeysFrequencies,
                            start_freq(band), end_freq(band))
        resampled == Resample(data, OriginalSampleRate, band.sample_rate)
    IN  [k \in 1 .. Len(wanted_freqs) |->
            [channel |-> channel, band |-> b, freq |-> wanted_freqs[k],
             of |-> resampled]]

\* Mutant of Processed: the loop over the bands is the outer one.
ProcessedBandFirst(rows, cfg) ==
    Concat([b \in 1 .. Len(cfg) |->
        Concat([row \in 1 .. Len(rows) |->
            BandValues(rows[row], row - 1, b, cfg[b])])])

\* processed: for data in rows, for each band of self.config
Processed(rows, cfg) ==
    Concat([row \in 1 .. Len(rows) |->
        Concat([b \in 1 .. Len(cfg) |->
            BandValues(rows[row], row - 1, b, cfg[b])])])

\* The three yields of get_info_on_audio_slice consumed by the caller;
\* without a configuration self.config.items() raises after the first two.
GetInfoOnAudioSlice(rows, cfg) ==
    [batch |-> rows,
     config |-> cfg,
     average_amplitudes |-> AverageAmplitudes(rows),
     fft |-> IF cfg = None THEN <<>> ELSE Processed(rows, cfg),
     raised |-> IF cfg = None THEN "AttributeError" ELSE "none"]

AnalysisInit ==
    /\ PipeIdle /\ RealtimeIdle /\ InterpIdle /\ SliceIdle
    /\ AnalysisIdle /\ ShaderIdle /\ TypeIdle

analysisRest == <<pipeVars, realtimeVars, interpVars, sliceVars, shaderVars,
                  typeVars>>

\* configure(bands), between two analyses: the bands are checked and
\* replace the configuration, or ConfigError is raised.
Configure ==
    /\ slice_info = <<>>
    /\ \E bands \in Configurations :
        IF \A b \in 1 .. Len(bands) : ValidBand(bands[b])
        THEN config' = bands /\ config_error' = FALSE
        ELSE config' = config /\ config_error' = TRUE
    /\ UNCHANGED slice_info
    /\ UNCHANGED analysisRest

\* One batch goes through get_info_on_audio_slice.
Analyse ==
    /\ slice_info = <<>>
    /\ \E rows \in Batches :
        slice_info' = GetInfoOnAudioSlice(rows, config)
    /\ UNCHANGED <<config, config_error>>
    /\ UNCHANGED analysisRest

\* The caller has stored what was yielded and goes on to its next cycle.
NextCycle ==
    /\ slice_info # <<>>
    /\ slice_info' = <<>>
    /\ UNCHANGED <<config, config_error>>
    /\ UNCHANGED analysisRest

AnalysisNext == Configure \/ Analyse \/ NextCycle

AnalysisSpec == AnalysisInit /\ [][AnalysisNext]_vars

----------------------------------------------------------------------------
(***************************************************************************)
(* The main loop of the shaders: MMVShadersCLI.render, realtime and        *)
(* _core_loop (src/src/run_shaders.py:259-577). render configures and      *)
(* starts the encoder of the frame pipe (self.ffmpeg, the FFmpegWrapper    *)
(* above) and creates no thread for pipe_writer_loop; the loop hands every *)
(* frame to the encoder's stdin itself. audio_source.next(step) and the    *)
(* interpolators fed in the loop (see above) do not decide how the loop    *)
(* goes on.                                                                *)
(***************************************************************************)
MaxTotalSteps == 8    \* largest audio_source.total_steps
MaxShaderSteps == 10  \* the loop is followed up to this step

CoreLoop == "core_loop"

\* What mgl.read_into_subprocess_stdin puts on the stream for this step.
ShaderFrame(step) == [frame |-> step, by |-> CoreLoop, run |-> session]

ShaderInit ==
    /\ PipeIdle /\ RealtimeIdle /\ InterpIdle /\ SliceIdle
    /\ AnalysisIdle /\ ShaderIdle /\ TypeIdle

shaderRest == <<realtimeVars, interpVars, sliceVars, analysisVars, typeVars>>
pipeButStdin == <<stop_piping, lock_writing, images_to_pipe,
                  max_images_on_pipe_buffer, count, image, pc, call, todo,
                  args, session>>

\* Mutant of ShaderRender: render also starts the pipe writer thread, as
\* MMVSkiaCore.run does.
ShaderRenderWithWriter ==
    /\ shader_pc = "off"
    /\ \E total_steps \in 1 .. MaxTotalSteps :
        shader_run' = [mode |-> "render", total_steps |-> total_steps]
    /\ stop_piping' = FALSE
    /\ lock_writing' = FALSE
    /\ images_to_pipe' = EmptyDict
    /\ stdin' = [data |-> <<>>, closed |-> FALSE]
    /\ session' = session + 1
    /\ pc' = [pc EXCEPT ![PipeWriter] = "start"]
    /\ shader_step' = 0
    /\ shader_pc' = "loop"
    /\ UNCHANGED <<max_images_on_pipe_buffer, count, image, call, todo, args>>
    /\ UNCHANGED shaderRest

\* render(): the audio file is read (total_steps), the encoder is
\* configured and started (a new subprocess with a fresh stdin), then
\* _core_loop is entered.
ShaderRender ==
    /\ shader_pc = "off"
    /\ \E total_steps \in 1 .. MaxTotalSteps :
        shader_run' = [mode |-> "render", total_steps |-> total_steps]
    /\ stop_piping' = FALSE
    /\ lock_writing' = FALSE
    /\ images_to_pipe' = EmptyDict
    /\ stdin' = [data |-> <<>>, closed |-> FALSE]
    /\ session' = session + 1
    /\ shader_step' = 0
    /\ shader_pc' = "loop"
    /\ UNCHANGED <<max_images_on_pipe_buffer, count, image, pc, call, todo,
                   args>>
    /\ UNCHANGED shaderRest

\* realtime(): view mode, the realtime source is started, then _core_loop
\* is entered.
ShaderRealtime ==
    /\ shader_pc = "off"
    /\ shader_run' = [mode |-> "view", total_steps |-> 0]
    /\ shader_step' = 0
    /\ shader_pc' = "loop"
    /\ UNCHANGED <<pipeVars, shaderRest>>

\* One iteration of `for step in itertools.count(start = 0)` up to
\* self.mgl.next(custom_pipeline = pipelined).
ShaderNext ==
    /\ shader_pc = "loop"
    /\ shader_step < MaxShaderSteps
    /\ shader_pc' = "frame"
    /\ UNCHANGED <<pipeVars, shader_run, shader_step, shaderRest>>

\* self.mgl.read_into_subprocess_stdin(self.ffmpeg.subprocess.stdin)
ShaderWrite ==
    /\ shader_pc = "frame"
    /\ shader_run.mode = "render"
    /\ ~stdin.closed
    /\ stdin' = [stdin EXCEPT !.data = Append(@, ShaderFrame(shader_step))]
    /\ shader_pc' = "test"
    /\ UNCHANGED <<pipeButStdin, shader_run, shader_step, shaderRest>>

\* if step == self.audio_source.total_steps - 2
LastShaderStep(step, total_steps) == step = total_steps - 2

\* self.ffmpeg.subprocess.stdin.close(); break
ShaderClose ==
    /\ shader_pc = "test"
    /\ LastShaderStep(shader_step, shader_run.total_steps)
    /\ stdin' = [stdin EXCEPT !.closed = TRUE]
    /\ shader_pc' = "done"
    /\ UNCHANGED <<pipeButStdin, shader_run, shader_step, shaderRest>>

\* The test fails: the rest of the body, then the next step.
ShaderGoOn ==
    /\ shader_pc = "test"
    /\ ~LastShaderStep(shader_step, shader_run.total_steps)
    /\ shader_step' = shader_step + 1
    /\ shader_pc' = "loop"
    /\ UNCHANGED <<pipeVars, shader_run, shaderRest>>

\* view mode: update_window(), the window was not closed.
ShaderUpdateWindow ==
    /\ shader_pc = "frame"
    /\ shader_run.mode = "view"
    /\ shader_step' = shader_step + 1
    /\ shader_pc' = "loop"
    /\ UNCHANGED <<pipeVars, shader_run, shaderRest>>

\* view mode: window_should_close, audio_source.stop() and break.
ShaderWindowClosed ==
    /\ shader_pc = "frame"
    /\ shader_run.mode = "view"
    /\ shader_pc' = "done"
    /\ UNCHANGED <<pipeVars, shader_run, shader_step, shaderRest>>

ShaderLoopNext ==
    \/ ShaderRender
    \/ ShaderRealtime
    \/ ShaderNext
    \/ ShaderWrite
    \/ ShaderClose
    \/ ShaderGoOn
    \/ ShaderUpdateWindow
    \/ ShaderWindowClosed

ShaderSpec == ShaderInit /\ [][ShaderLoopNext]_vars


----------------------------------------------------------------------------
(***************************************************************************)
(* Utils.is_matching_type (src/src/mmv/common/cmn_utils.py:226-236), as    *)
(* MMVParticle.next calls it on the position of a path                     *)
(* (src/src/mmvparticle.py:73-83). An item is known by its class; `wanted` *)
(* is a list of classes, `object` being the class every item is an         *)
(* instance of. The list given as `wanted` is changed by the call.         *)
(***************************************************************************)
MaxItems == 2     \* most entries of `items` and of `wanted`

\* isinstance(item, wanted_type)
IsInstance(item, wanted_type) == wanted_type = "object" \/ item = wanted_type

\* del l[index], index counted from 0
DelItem(l, index) ==
    [i \in 1 .. (Len(l) - 1) |-> IF i <= index THEN l[i] ELSE l[i + 1]]

RECURSIVE ForWanted(_, _, _)
\* for wanted_index, wanted_type in enumerate(wanted), from the entry the
\* iterator is at: an entry the item is an instance of is deleted and the
\* iterator moves on by one all the same; any other entry returns False.
ForWanted(item, wanted, wanted_index) ==
    IF wanted_index >= Len(wanted)
    THEN [returned |-> FALSE, wanted |-> wanted]
    ELSE IF IsInstance(item, wanted[wanted_index + 1])
    THEN ForWanted(item, DelItem(wanted, wanted_index), wanted_index + 1)
    ELSE [returned |-> TRUE, wanted |-> wanted]

RECURSIVE ForItems(_, _)
\* for _, item in enumerate(items); return True after the last item
ForItems(items, wanted) ==
    IF items = <<>>
    THEN [result |-> TRUE, wanted |-> wanted]
    ELSE LET inner == ForWanted(Head(items), wanted, 0)
         IN  IF inner.returned
             THEN [result |-> FALSE, wanted |-> inner.wanted]
             ELSE ForItems(Tail(items), inner.wanted)

\* is_matching_type(items, wanted): what was given, what is returned and
\* what is left of the list `wanted`.
IsMatchingType(items, wanted) ==
    [items |-> items,
     wanted |-> wanted,
     result |-> ForItems(items, wanted).result,
     left |-> ForItems(items, wanted).wanted]

TypeInit ==
    /\ PipeIdle /\ RealtimeIdle /\ InterpIdle /\ SliceIdle
    /\ AnalysisIdle /\ ShaderIdle /\ TypeIdle

\* A call with up to MaxItems items (a Point, a Line or something else) and
\* up to MaxItems wanted classes.
CallIsMatchingType ==
    /\ matching = <<>>
    /\ \E n, m \in 0 .. MaxItems :
       \E items \in [1 .. n -> {"Point", "Line", "int"}],
          wanted \in [1 .. m -> {"Point", "Line", "object"}] :
            matching' = IsMatchingType(items, wanted)
    /\ UNCHANGED <<pipeVars, realtimeVars, interpVars, sliceVars,
                   analysisVars, shaderVars>>

\* The caller has used the result.
ReturnIsMatchingType ==
    /\ matching # <<>>
    /\ matching' = <<>>
    /\ UNCHANGED <<pipeVars, realtimeVars, interpVars, sliceVars,
                   analysisVars, shaderVars>>

TypeNext == CallIsMatchingType \/ ReturnIsMatchingType

TypeSpec == TypeInit /\ [][TypeNext]_vars

----------------------------------------------------------------------------
(***************************************************************************)
(* A render to video end to end: MMVSkiaCore.run                           *)
(* (src/src/mmv/mmvskia/mmv_skia_core.py:86-278) on the frame pipe above.  *)
(* The main thread (w1) starts the encoder and the pipe writer thread,     *)
(* calls write_to_pipe(step, image) for step = 0, 1, ... (line 159:        *)
(* `for step in range(0, total_steps)`), then close_pipe() once (line 278) *)
(* and goes on to return. No other thread takes part.                      *)
(***************************************************************************)
Main == "w1"

\* Mutant of RunWriteToPipeCall: the steps are taken from the last one down.
RunWriteToPipeCallDescending ==
    /\ WriteToPipeCall(Main)
    /\ \A index \in todo[Main] : call'[Main].index >= index

\* The next step of the main loop: write_to_pipe(global_frame_index,
\* next_image) with the lowest index not yet submitted.
RunWriteToPipeCall ==
    /\ WriteToPipeCall(Main)
    /\ \A index \in todo[Main] : call'[Main].index <= index

\* After the last step: self.mmvskia_main.pipe_video_to.close_pipe()
RunClosePipeCall ==
    /\ session = 1
    /\ todo[Main] = {}
    /\ ClosePipeCall(Main)

\* close_pipe of the main thread sets stop_piping and returns; run goes on
\* to its end.
RunClosePipeStop ==
    /\ pc[Main] = "c_stop"
    /\ stop_piping' = TRUE
    /\ pc' = [pc EXCEPT ![Main] = "returned"]
    /\ UNCHANGED <<lock_writing, images_to_pipe, max_images_on_pipe_buffer,
                   count, image, stdin, call, todo, args, session>>
    /\ UNCHANGED audioVars

\* The steps of the main thread.
RunMain ==
    \/ ConfigureEncoding
    \/ RunWriteToPipeCall
    \/ WriteToPipeWait(Main)
    \/ WriteToPipeInsert(Main)
    \/ RunClosePipeCall
    \/ ClosePipeWaitBuffer(Main)
    \/ ClosePipeWaitLock(Main)
    \/ RunClosePipeStop

\* The steps of the pipe writer thread, its own close_pipe included.
RunPipeWriter == PipeWriterLoop \/ ClosePipe(PipeWriter)

RunNext == RunMain \/ RunPipeWriter

\* Both threads are scheduled as long as they can take a step.
RunSpec ==
    InitOne /\ [][RunNext]_vars /\ WF_vars(RunMain) /\ WF_vars(RunPipeWriter)

----------------------------------------------------------------------------
\* Shorthands of the claims.

\* The bytes the encoder has received so far.
Written == stdin.data

\* A worker's write_to_pipe stores its image in this step and returns.
Inserts(t) == pc[t] = "w_insert" /\ pc'[t] = "idle"

\* Thread t returns from close_pipe in this step.
ClosePipeReturns(t) == pc[t] = "c_stop" /\ pc'[t] # "c_stop"

\* Every frame of the run was written, in order, and the renderer w1 is back
\* from all its write_to_pipe calls.
Complete ==
    /\ Len(Written) = args.frame_count
    /\ \A k \in 1 .. Len(Written) : Written[k].frame = k - 1
    /\ todo["w1"] = {}
    /\ ~InWriteToPipe("w1")

\* A worker is inside close_pipe although not every frame was written.
ClosingEarly ==
    /\ \E t \in Workers : InClosePipe(t)
    /\ Len(Written) < args.frame_count

----------------------------------------------------------------------------
\* C1. The k-th image written to the encoder's stdin is the image submitted
\* with index k (k = 0, 1, ...): the writes happen in strictly increasing
\* index order, without a gap and without an index written twice, whatever
\* the interleaving of the write_to_pipe calls and the loop.
C1_WrittenInIndexOrder ==
    \A k \in 1 .. Len(Written) : Written[k].frame = k - 1

\* All frames of a run of at least two frames were written, and they came
\* from different workers.
C1_Witness ==
    /\ args.frame_count >= 2
    /\ Len(Written) = args.frame_count
    /\ Written[1].by # Written[2].by

\* C2 as stated: for every max_images_on_pipe_buffer >= 1, the single
\* renderer's calls all return and the output becomes frame 0 .. N-1 in order
\* (unless somebody calls close_pipe before that).
C2_Original == <>(Complete \/ ClosingEarly)

\* C2, amended: the same when max_images_on_pipe_buffer >= frame_count, so
\* that the frames submitted ahead of the next expected one all fit.
C2_CompleteWhenBufferFits ==
    (args.max_images_on_pipe_buffer >= args.frame_count)
        => <>(Complete \/ ClosingEarly)

\* Frame 0 was submitted last: the loop writes it while all the other frames
\* of a run of MaxFrames frames wait in the buffer.
C2_Witness ==
    /\ args.frame_count = MaxFrames
    /\ pc[PipeWriter] = "write"
    /\ image.frame = 0
    /\ Keys(images_to_pipe) = 1 .. (MaxFrames - 1)

\* C3 as stated: write_to_pipe does not store its frame while the number of
\* buffered frames is at (or above) max_images_on_pipe_buffer.
C3_Original ==
    [][\A t \in Workers :
          (Inserts(t) /\ call[t].index \notin Keys(images_to_pipe))
              => Len_(images_to_pipe) < max_images_on_pipe_buffer]_vars

\* C4 as stated: the buffer never holds more than max_images_on_pipe_buffer
\* frames, with any number of workers calling write_to_pipe.
C4_Original == Len_(images_to_pipe) <= args.max_images_on_pipe_buffer

\* C5 as stated: a write_to_pipe whose index is already buffered leaves the
\* buffer as it is (and fails with DuplicateFrame).
C5_Original ==
    [][\A t \in Workers :
          (Inserts(t) /\ call[t].index \in Keys(images_to_pipe))
              => images_to_pipe' = images_to_pipe]_vars

\* C6 as stated: close_pipe returns only when the buffer is empty, no write
\* is in flight and the encoder's stdin has already been closed.
C6_Original ==
    [][\A t \in Threads :
          ClosePipeReturns(t)
              => /\ images_to_pipe' = EmptyDict
                 /\ ~lock_writing' /\ pc'[PipeWriter] # "write"
                 /\ stdin'.closed]_vars

\* The renderer w1 is inside close_pipe before it has submitted all frames.
AbortPending == InClosePipe("w1") /\ todo["w1"] # {}

\* C7 as stated: a close_pipe called before all frames were submitted does
\* not wait for the buffer: it terminates and the stream gets closed, even
\* with frames in the buffer whose predecessor is never submitted.
C7_Original == AbortPending ~> (stop_piping /\ stdin.closed)

\* C7, amended: a close_pipe called by the renderer before all frames were
\* submitted waits for the buffer to drain: it stays in its first loop as long
\* as the buffer holds a frame, and when it gets to set stop_piping every
\* frame submitted so far has been written to the stream, none was dropped.
C7_CloseWaitsForDrain ==
    /\ [](pc["w1"] = "c_stop"
            => /\ images_to_pipe = EmptyDict
               /\ Len(Written) = args.frame_count - Cardinality(todo["w1"]))
    /\ [][\A t \in Threads :
            (pc[t] = "c_waitbuf" /\ images_to_pipe # EmptyDict)
                => pc'[t] = "c_waitbuf"]_vars

\* The renderer closed early, after at least one frame, and is through both
\* waits of close_pipe.
C7_Witness ==
    /\ pc["w1"] = "c_stop"
    /\ todo["w1"] # {}
    /\ Len(Written) >= 1

C9_Original ==
    [][\A t \in Workers : Inserts(t) => call[t].open]_vars

\* C10. When the loop of a session has run its first lines (the end of
\* "open"), the buffer is empty and self.count is 0, also in a second session
\* of the same wrapper; the first frame written in a session is the one
\* submitted with index 0 in that session.
C10_OpenResets ==
    /\ [][(pc[PipeWriter] = "start" /\ pc'[PipeWriter] = "while")
            => (images_to_pipe' = EmptyDict /\ count' = 0)]_vars
    /\ [](Len(Written) >= 1
            => (Written[1].frame = 0 /\ Written[1].run = session))

\* The first frame of a second session was written, after a first session
\* that wrote all its frames (self.count was left at frame_count).
C10_Witness ==
    /\ session = 2
    /\ args.frame_count >= 2
    /\ Len(Written) = 1
    /\ count = 0

----------------------------------------------------------------------------
\* A FeatureFrame: an entry for every key, all computed in the same cycle.
FullyFormed(d) ==
    /\ Keys(d) = {InfoKeys[i] : i \in 1 .. Len(InfoKeys)}
    /\ \A k1 \in Keys(d), k2 \in Keys(d) : d[k1] = d[k2]

\* C11 (as claimed): the map get_info() handed out is, whenever its holder
\* looks at it, a fully-formed frame: no entry is missing and all entries
\* come from the same capture cycle.
C11_Original == main_pc = "reading" => FullyFormed(info)

\* stop() was called and the capture loop has neither left its while loop
\* nor still has the request in the flag.
StopLost ==
    /\ stop_requested
    /\ ~should_stop
    /\ capture_pc \notin {"l154", "done"}

\* C12 (as claimed): a stop request, made at whatever point after the
\* capture thread was started, is never lost: it stays in the flag until the
\* loop has tested it and left.
C12_Original == ~StopLost

\* The batch of the realtime source has 2 channels of batch_size samples.
RealtimeShape ==
    capture_pc \notin {"off", "l109"} =>
        /\ DOMAIN current_batch = Channels
        /\ \A ch \in Channels : Len(current_batch[ch]) = realtime.batch_size

\* The slice of a file has 2 channels of batch_size samples.
SliceShape ==
    slice_step > 0 =>
        /\ DOMAIN audio_slice = Channels
        /\ \A ch \in DOMAIN audio_slice :
              Len(audio_slice[ch]) = slicing.batch_size

\* C13 (as claimed): after any number of capture cycles and for every file
\* slice, the batch is a stereo buffer of exactly 2 channels with exactly
\* batch_size samples each.
C13_Original == RealtimeShape /\ SliceShape

\* A capture cycle that records k new samples, 0 < k < batch_size.
SmallCycle ==
    /\ capture_pc = "l125"
    /\ capture_pc' = "l152_1"
    /\ 0 < realtime.recorder_numframes
    /\ realtime.recorder_numframes < realtime.batch_size

\* C14 (as claimed): a capture cycle that records k new samples,
\* 0 < k < batch_size, leaves in each channel the newest batch_size - k
\* samples of the batch before it, faded and in their order, followed by
\* the k new samples.
C14_Original ==
    [][SmallCycle =>
          \A ch \in Channels :
              current_batch'[ch] =
                  SubSeq(Fade(current_batch[ch]),
                         realtime.recorder_numframes + 1,
                         realtime.batch_size)
                  \o Recorded(ch, cycle', realtime.recorder_numframes)]_vars

\* Positions 0 .. batch_size - 1 of the left and right rows of the slice hold
\* the samples start_cut, start_cut + 1, ... of the file, and zeros past its
\* end.
HoldsRangeFrom(start_cut) ==
    \A ch \in Channels, j \in 0 .. (slicing.batch_size - 1) :
        audio_slice[ch][j + 1] =
            IF start_cut + j < slicing.samples
            THEN FileSample(ch, start_cut + j)
            ELSE Silent

\* C20 (as claimed): the batch of a step holds the samples of the range
\* starting at step / fps * sample_rate, zero-padded past the end.
C20_Original ==
    slice_step > 0 =>
        HoldsRangeFrom(((slice_step - 1) * slicing.sample_rate)
                       \div slicing.fps)

\* C20 (amended): the batch of a step holds the samples of the range
\* starting at max(t, 0) / fps * sample_rate, zero-padded past the end, where
\* t is the smaller of step + offset and total_steps - 1.
C20_SliceOfOffsetStep ==
    slice_step > 0 =>
        LET t == Min(slice_step - 1 + slicing.offset,
                     ((slicing.samples * slicing.fps)
                      \div slicing.sample_rate) - 1)
        IN  HoldsRangeFrom((Max(t, 0) * slicing.sample_rate)
                           \div slicing.fps)

\* A step was sliced with an offset, and its slice starts inside the file
\* and passes its end.
C20_Witness ==
    /\ slice_step > 0
    /\ slicing.offset # 0
    /\ audio_slice[0][1] # Silent
    /\ audio_slice[0][slicing.batch_size] = Silent

\* The ratio of element i of an interpolater is 1, is 0.
RatioIsOne(sc, i) == At(sc.ratios, i).num = At(sc.ratios, i).den
RatioIsZero(sc, i) == At(sc.ratios, i).num = 0

\* C15: whenever next() has stepped an interpolater, every element of its
\* current whose ratio is 1 equals the target at that element, whatever
\* current and target were before.
C15_RatioOneReachesTarget ==
    [][\A name \in Keys(interpolaters) :
          stepped'[name] > stepped[name] =>
              \A i \in 1 .. Len(interpolaters'[name].current) :
                  RatioIsOne(interpolaters'[name], i) =>
                      interpolaters'[name].current[i]
                          = At(interpolaters'[name].target, i)]_vars

\* An interpolater was stepped from a current different from its target: the
\* element of ratio 1 has reached a target other than 0, another element has
\* not reached its target yet.
C15_Witness ==
    \E name \in Keys(interpolaters) :
        LET sc == interpolaters[name]
        IN  /\ stepped[name] >= 2
            /\ \E i \in 1 .. Len(sc.current) :
                  /\ RatioIsOne(sc, i)
                  /\ sc.current[i] = At(sc.target, i)
                  /\ sc.current[i] # 0
            /\ \E j \in 1 .. Len(sc.current) :
                  sc.current[j] # At(sc.target, j)

\* C16: after any feeds and steps, every element of current whose ratio is 0
\* still has the value it was created with, 0.
C16_RatioZeroKeepsCurrent ==
    \A name \in Keys(interpolaters) :
        \A i \in 1 .. Len(interpolaters[name].current) :
            RatioIsZero(interpolaters[name], i) =>
                interpolaters[name].current[i] = 0

\* An interpolater was stepped twice towards a target other than 0: its
\* element of ratio 0 is still 0 while another element has moved.
C16_Witness ==
    \E name \in Keys(interpolaters) :
        LET sc == interpolaters[name]
        IN  /\ stepped[name] >= 2
            /\ \E i \in 1 .. Len(sc.current) :
                  /\ RatioIsZero(sc, i)
                  /\ At(sc.target, i) # 0
                  /\ sc.current[i] = 0
            /\ \E j \in 1 .. Len(sc.current) : sc.current[j] # 0

\* C17 (as claimed): current, target and ratios of every interpolater always
\* have the length the interpolater was added with (ratios is never
\* assigned after add_interpolater), also after a replace of another length.
C17_Original ==
    \A name \in Keys(interpolaters) :
        /\ Len(interpolaters[name].current) = Len(interpolaters[name].ratios)
        /\ Len(interpolaters[name].target) = Len(interpolaters[name].ratios)

\* The modes for which the last feed is said to win.
Overwriting == {"fill", "replace"}

\* The last two calls of next() fed the same interpolater, first a and then
\* b, in the same overwriting mode.
FedTwice ==
    /\ Len(calls) >= 2
    /\ calls[Len(calls) - 1].name = calls[Len(calls)].name
    /\ calls[Len(calls) - 1].mode = calls[Len(calls)].mode
    /\ calls[Len(calls)].mode \in Overwriting

\* What feeding only b, the later of the two values, would have left.
OnlyLast ==
    NextOf(calls[Len(calls) - 1].before, calls[Len(calls)].feed,
           calls[Len(calls)].mode)

\* The value of a call has the size of the interpolater it was fed to.
Fits(c) == c.mode = "replace" => Len(c.feed) = Len(c.before.ratios)

\* C18 (as claimed): in the modes fill and replace, feeding a and then b
\* (values of the interpolater's size) leaves target and current exactly as
\* feeding only b would.
C18_Original ==
    (FedTwice /\ Fits(calls[Len(calls) - 1]) /\ Fits(calls[Len(calls)]))
        => interpolaters[calls[Len(calls)].name] = OnlyLast

\* C18 (amended): in the modes fill and replace, feeding a and then b leaves
\* target exactly as feeding only b would, and so it leaves current at the
\* elements of ratio 0 or 1 when the call feeding b went through (elsewhere
\* current has been stepped by each of the two feeds).
C18_TargetLastWriteWins ==
    FedTwice =>
        LET sc == interpolaters[calls[Len(calls)].name]
        IN  /\ sc.target = OnlyLast.target
            /\ ~calls[Len(calls)].raised =>
                  /\ Len(sc.current) = Len(OnlyLast.current)
                  /\ \A i \in 1 .. Len(sc.current) :
                        (RatioIsOne(sc, i) \/ RatioIsZero(sc, i)) =>
                            sc.current[i] = OnlyLast.current[i]

\* An interpolater was fed two different values in the same overwriting
\* mode, both calls went through, and its current is not what feeding only
\* the second would have left.
C18_Witness ==
    /\ FedTwice
    /\ calls[Len(calls) - 1].feed # calls[Len(calls)].feed
    /\ ~calls[Len(calls) - 1].raised
    /\ ~calls[Len(calls)].raised
    /\ interpolaters[calls[Len(calls)].name].current # OnlyLast.current

\* C19 (as claimed): whatever keys the info maps held, after n frames that
\* were not frozen every interpolater has been stepped exactly n times.
C19_Original == \A name \in Keys(stepped) : stepped[name] = frames.live

\* C19 (amended): every interpolater has been stepped exactly once for each
\* frame that was not frozen and whose info map held the key it is fed from.
C19_SteppedWhenKeyed ==
    \A name \in Keys(stepped) :
        InfoKey(name) \in Keys(frames.with) =>
            stepped[name] = frames.with[InfoKey(name)]

\* Some frames were frozen and some info maps lacked a key: an interpolater
\* was stepped in every live frame, another in fewer.
C19_Witness ==
    /\ frames.live >= 2
    /\ frames.all > frames.live
    /\ \E n1 \in Keys(stepped), n2 \in Keys(stepped) :
          /\ stepped[n1] = frames.live
          /\ stepped[n2] < frames.live
          /\ stepped[n2] > 0

----------------------------------------------------------------------------
\* Shorthands of the claims about the analysis.

\* An analysis has run through under a configuration.
Analysed == slice_info # <<>> /\ slice_info.raised = "none"

\* The number of reference note frequencies inside [start_freq, end_freq].
NotesInside(band) ==
    Cardinality({k \in DOMAIN PianoKeysFrequencies :
        /\ start_freq(band) <= PianoKeysFrequencies[k]
        /\ PianoKeysFrequencies[k] <= end_freq(band)})

RECURSIVE NotesOfBands(_)
NotesOfBands(cfg) ==
    IF cfg = <<>> THEN 0 ELSE NotesInside(Head(cfg)) + NotesOfBands(Tail(cfg))

\* C21: under a configuration, the fft of every analysed batch has as many
\* entries as the batch has channels times the sum over the bands of the
\* number of reference notes inside the band, whatever the samples are.
C21_ConstantFftLength ==
    Analysed =>
        Len(slice_info.fft) =
            Len(slice_info.batch) * NotesOfBands(slice_info.config)

\* A batch holding a sample that is not a number was analysed under two
\* bands of three and two notes: the fft has ten entries.
C21_Witness ==
    /\ Analysed
    /\ Len(slice_info.config) = 2
    /\ Len(slice_info.fft) = 10
    /\ \E i \in DOMAIN slice_info.batch[1] : slice_info.batch[1][i] = NaN

\* C22 as stated: the values of a band declared earlier all come before
\* those of a band declared later.
C22_Original ==
    Analysed =>
        \A i, j \in DOMAIN slice_info.fft :
            i < j => slice_info.fft[i].band <= slice_info.fft[j].band

\* C22: the fft is ordered by channel first and by band second: all values
\* of the left channel (its bands in declaration order, the notes of a band
\* in ascending order) come before any value of the right channel.
C22_ChannelThenBand ==
    Analysed =>
        \A i, j \in DOMAIN slice_info.fft :
            i < j =>
                LET a == slice_info.fft[i]
                    b == slice_info.fft[j]
                IN  \/ a.channel < b.channel
                    \/ a.channel = b.channel /\ a.band < b.band
                    \/ a.channel = b.channel /\ a.band = b.band
                          /\ a.freq < b.freq

\* Two bands with notes: a value of the second band of the left channel
\* comes before a value of the first band of the right channel.
C22_Witness ==
    /\ Analysed
    /\ \E i, j \in DOMAIN slice_info.fft :
          /\ i < j
          /\ slice_info.fft[i].band = 2 /\ slice_info.fft[i].channel = 0
          /\ slice_info.fft[j].band = 1 /\ slice_info.fft[j].channel = 1

\* C23 as stated: the average amplitudes are the medians of |left|, of
\* |right| and of |mono|, mono being (left + right) / 2 sample by sample
\* (in quarters).
C23_Original ==
    slice_info # <<>> =>
        slice_info.average_amplitudes =
            <<Plus(Median2(AbsRow(slice_info.batch[1])),
                   Median2(AbsRow(slice_info.batch[1]))),
              Plus(Median2(AbsRow(slice_info.batch[2])),
                   Median2(AbsRow(slice_info.batch[2]))),
              Median2(AbsRow(Mono2(slice_info.batch)))>>

\* C24: a row resampled to the sample rate it has is returned as it is:
\* the magnitudes of a band whose sample rate is that of the source are
\* computed from the very samples of the row.
C24_ResampleIdentity ==
    Analysed =>
        \A i \in DOMAIN slice_info.fft :
            LET e == slice_info.fft[i] IN
            slice_info.config[e.band].sample_rate = OriginalSampleRate =>
                e.of = slice_info.batch[e.channel + 1]

\* A row with an odd sample, which single precision would not keep, went
\* through a band at the sample rate of the source.
C24_Witness ==
    /\ Analysed
    /\ \E i \in DOMAIN slice_info.fft :
          LET e == slice_info.fft[i] IN
          /\ slice_info.config[e.band].sample_rate = OriginalSampleRate
          /\ \E k \in DOMAIN e.of : e.of[k] = 1

\* C25: a configuration with a band whose start_freq is not below its
\* end_freq or whose sample rate is not positive is refused with
\* ConfigError and never becomes the configuration, so that no batch is
\* analysed under such a band.
C25_BandsValidated ==
    /\ \A b \in DOMAIN config :
          start_freq(config[b]) < end_freq(config[b])
              /\ config[b].sample_rate > 0
    /\ slice_info # <<>> =>
          \A b \in DOMAIN slice_info.config :
              start_freq(slice_info.config[b]) < end_freq(slice_info.config[b])
                  /\ slice_info.config[b].sample_rate > 0

\* A configuration was refused, the one accepted before it is still there
\* and a batch was analysed under it.
C25_Witness ==
    /\ config_error
    /\ Analysed
    /\ slice_info.config = config

\* The batch is empty or holds a sample that is not a number.
InvalidBatch(rows) ==
    \/ Len(rows[1]) = 0
    \/ \E r \in DOMAIN rows : \E i \in DOMAIN rows[r] : rows[r][i] = NaN

\* C26 as stated: the analysis, under a configuration, of an empty or
\* non-finite batch reports InvalidAudioData and yields zero-valued
\* features.
C26_Original ==
    slice_info # <<>> /\ slice_info.config # None
        /\ InvalidBatch(slice_info.batch) =>
        /\ slice_info.raised = "InvalidAudioData"
        /\ slice_info.average_amplitudes = <<0, 0, 0>>
        /\ slice_info.fft = <<>>

----------------------------------------------------------------------------
\* Shorthands of the claims about the render loop of the shaders.

\* A new subprocess: a stream nothing was written to.
FreshStdin == [data |-> <<>>, closed |-> FALSE]

\* The step is one of pipe_writer_loop writing to or closing the stream.
ByPipeWriter == pc[PipeWriter] \in {"write", "close_stdin"}

\* The step is one of _core_loop writing to or closing the stream.
ByCoreLoop == shader_pc \in {"frame", "test"}

----------------------------------------------------------------------------
\* The run is over: every frame was written in order, stop_piping is set,
\* the stream is closed, the writer loop has ended and run has returned from
\* close_pipe.
RunReturned ==
    /\ Written = [i \in 1 .. args.frame_count |->
                     [frame |-> i - 1, by |-> Main, run |-> 1]]
    /\ stop_piping
    /\ stdin.closed
    /\ pc[PipeWriter] = "done"
    /\ pc[Main] = "returned"

C29_Original ==
    shader_run.mode = "render" /\ shader_pc = "done" =>
        /\ stdin.closed
        /\ stdin.data =
              [i \in 1 .. shader_run.total_steps |-> ShaderFrame(i - 1)]

----------------------------------------------------------------------------
\* C30 as stated: for two items and two wanted types the result is True
\* exactly when the items are of the two wanted types in this order or in
\* the opposite one; and it is False whenever an item is of no wanted type.
C30_Original ==
    matching # <<>> /\ Len(matching.items) = 2 /\ Len(matching.wanted) = 2 =>
        LET a == matching.items[1]
            b == matching.items[2]
            w == matching.wanted
        IN  /\ matching.result <=>
                \/ IsInstance(a, w[1]) /\ IsInstance(b, w[2])
                \/ IsInstance(a, w[2]) /\ IsInstance(b, w[1])
            /\ (\E i \in 1 .. 2 : \A k \in 1 .. 2 :
                    ~IsInstance(matching.items[i], w[k]))
                  => ~matching.result

====
